---------------------------- MODULE Spec2Model ----------------------------
(***************************************************************************)
(* Non-interactive proof of knowledge of a discrete logarithm               *)
(* (codes/s1_zkp_for_dlog/src/lib.rs): prove(secret, generator, modulus)    *)
(* returns the residue y = g^x mod p and ROUND_OF_VERIFY rounds (h, s);     *)
(* verify(y, g, p, proofs) rechecks every round.                            *)
(*                                                                          *)
(* One behaviour is one caller: it picks the public parameters and the      *)
(* secret, calls prove (one step per loop iteration), and then calls verify *)
(* once, on prove's output as it is or after changing it.                   *)
(*                                                                          *)
(* Modelling decisions:                                                     *)
(*  - Uint<LIMBS> is an unsigned integer of UintBits bits (a scaled-down     *)
(*    width); ROUND_OF_VERIFY is scaled down from the source's 100.         *)
(*  - blake3 cannot be computed here.  get_bit_by_hashing is a lazily       *)
(*    sampled oracle: the first query of an input (h, g, p) picks a bit,     *)
(*    every later query of the same input returns that bit.  Its input is   *)
(*    the byte image of the three integers, which is injective in them.     *)
(*  - crypto-bigint (not in this repository) is modelled by what it         *)
(*    computes: DynResidue::pow and ::mul are exact modular arithmetic for  *)
(*    an odd modulus > 1; for any other modulus the Montgomery parameters   *)
(*    are outside the library's domain, and DynResidueParams::new either    *)
(*    panics or yields parameters whose results are unspecified, depending  *)
(*    on the library version the build resolves.  add_mod is the library's  *)
(*    add, one conditional subtraction of the modulus.                      *)
(***************************************************************************)
EXTENDS Integers, Naturals, Sequences, FiniteSets, TLC

(***************************************************************************)
(* Bounds of the model.                                                     *)
(***************************************************************************)
\* lib.rs:16 sets the round count to 100; the model runs this many rounds.
ROUND_OF_VERIFY == 2
\* Width in bits of Uint<LIMBS> (U256 in the tests).
UintBits == 7
\* The caller's modulus and generator are drawn from 0..MaxModulus.
MaxModulus == 7
\* The caller's secret is drawn from 0..MaxSecret and the largest Uint.
MaxSecret == 5
\* The r of a round is drawn among the MaxDraw + 1 smallest and the
\* MaxDraw + 1 largest values below p - 1 (all of them when p <= 2 * MaxDraw + 3).
MaxDraw == 5

\* A result that no call has produced yet
Unset == 0 - 1

UintMod == 2 ^ UintBits
UintMax == UintMod - 1

Moduli == 0 .. MaxModulus
Generators == 0 .. MaxModulus
Secrets == (0 .. MaxSecret) \cup {UintMax}

VARIABLES
    pc,         \* where the caller is: idle, loop, proved, done, aborted, unspecified
    call,       \* the function called last: none, prove, verify
    secret,     \* prove's arguments
    generator,
    modulus,
    residue,    \* prove's first result, y = g^x mod p
    proofs,     \* prove's Vec<Proof>, in generation order
    rs,         \* the r drawn in each round (local to the loop body; kept to state the properties)
    hashBit,    \* the oracle: (h, g, p) -> bit, for the inputs hashed so far
    vResidue,   \* verify's arguments (generator and modulus are prove's)
    vProofs,
    result,     \* verify's return value
    evaluated   \* how many rounds verify's closure ran on

vars == <<pc, call, secret, generator, modulus, residue, proofs, rs, hashBit,
          vResidue, vProofs, result, evaluated>>

(***************************************************************************)
(* crypto-bigint arithmetic.                                                *)
(***************************************************************************)
\* Uint::wrapping_sub
wrapping_sub(a, b) == (a - b + UintMod) % UintMod

\* add_mod as it would be with a wrapping add, the carry of self + rhs lost
add_mod_wrapping(a, b, p) ==
    LET w == (a + b) % UintMod
    IN  IF w < p THEN w ELSE w - p

\* Uint::add_mod(self, rhs, p): adc, then sbb of p, then p added back when the
\* subtraction borrowed.  The result is reduced only when self + rhs < 2p.
add_mod(a, b, p) ==
    LET sum    == a + b
        w      == sum % UintMod
        carry  == sum \div UintMod
        borrow == IF w < p THEN 1 ELSE 0
        w2     == (w - p + UintMod) % UintMod
        under  == IF carry - borrow < 0 THEN 1 ELSE 0
    IN  IF under = 1 THEN (w2 + p) % UintMod ELSE w2

RECURSIVE PowNat(_, _, _)
\* b^e mod p by square and multiply, for p >= 1
PowNat(b, e, p) ==
    IF e = 0 THEN 1 % p
    ELSE LET half == PowNat(b, e \div 2, p)
             sq   == (half * half) % p
         IN  IF e % 2 = 1 THEN (sq * (b % p)) % p ELSE sq

\* RemCaculateCache::new: the outcomes of DynResidueParams::new(modulus)
CacheNew(p) ==
    IF p > 1 /\ p % 2 = 1 THEN {"ok"}
    ELSE IF p % 2 = 0 THEN {"panic", "unspecified"}
    ELSE {"unspecified"}

\* RemCaculateCache::pow_mod, for a cache that CacheNew built "ok"
pow_mod(base, exp, p) == PowNat(base, exp, p)

\* RemCaculateCache::mul_mod, for a cache that CacheNew built "ok"
mul_mod(lhs, rhs, p) == ((lhs % p) * (rhs % p)) % p

(***************************************************************************)
(* The challenge bit.                                                       *)
(***************************************************************************)
HashKey(h, g, p) == <<h, g, p>>

\* get_bit_by_hashing under the oracle hb, which holds the input
get_bit_by_hashing(hb, h, g, p) == hb[HashKey(h, g, p)]

\* The bits the oracle may answer for an input: the one it gave before, or
\* either one for an input it has not seen.
HashAnswers(hb, h, g, p) ==
    IF HashKey(h, g, p) \in DOMAIN hb THEN {hb[HashKey(h, g, p)]} ELSE {0, 1}

\* struct Proof
Proof(h, s) == [h |-> h, s |-> s]

(***************************************************************************)
(* The initial state: the caller's inputs.                                  *)
(***************************************************************************)
Init ==
    /\ pc = "idle"
    /\ call = "none"
    /\ secret \in Secrets
    /\ generator \in Generators
    /\ modulus \in Moduli
    /\ residue = Unset
    /\ proofs = <<>>
    /\ rs = <<>>
    /\ hashBit = <<>>
    /\ vResidue = Unset
    /\ vProofs = <<>>
    /\ result = FALSE
    /\ evaluated = 0

(***************************************************************************)
(* prove                                                                    *)
(***************************************************************************)
\* The assertion as it would be if it only excluded a zero modulus
Precondition_nonzero(p) == p > 0

\* lib.rs:33: assert!(modulus > ONE)
Precondition(p) == p > 1

\* lib.rs:33-45: the assertion, the cache, the residue, p - 1 and its unwrap
ProveStart ==
    /\ pc = "idle"
    /\ call' = "prove"
    /\ IF ~Precondition(modulus)
       THEN /\ pc' = "aborted"
            /\ UNCHANGED residue
       ELSE \E o \in CacheNew(modulus) :
              IF o = "ok"
              THEN /\ residue' = pow_mod(generator, secret, modulus)
                   /\ pc' = IF wrapping_sub(modulus, 1) = 0 THEN "aborted" ELSE "loop"
              ELSE /\ pc' = IF o = "panic" THEN "aborted" ELSE "unspecified"
                   /\ UNCHANGED residue
    /\ UNCHANGED <<secret, generator, modulus, proofs, rs, hashBit,
                   vResidue, vProofs, result, evaluated>>

\* The response as it would be if it were reduced by the modulus, not by p - 1
Response_modp(bit, r, x, order) == IF bit > 0 THEN add_mod(r, x, order + 1) ELSE r

\* lib.rs:48: Uint::random_mod(&mut OsRng, &non_zero_modulus), a value below
\* order; the model draws it from both ends of that range
Draws(order) ==
    {r \in 0 .. (order - 1) : r <= MaxDraw \/ r >= order - 1 - MaxDraw}

\* The response of a round: lib.rs:52-56
Response(bit, r, x, order) == IF bit > 0 THEN add_mod(r, x, order) ELSE r

\* lib.rs:46-59: one iteration of the loop
ProveRound ==
    /\ pc = "loop"
    /\ Len(proofs) < ROUND_OF_VERIFY
    /\ LET p_minus_1 == wrapping_sub(modulus, 1) IN
       \E r \in Draws(p_minus_1) :
          LET h == pow_mod(generator, r, modulus) IN
          \E bit \in HashAnswers(hashBit, h, generator, modulus) :
             /\ hashBit' = (HashKey(h, generator, modulus) :> bit) @@ hashBit
             /\ proofs' = Append(proofs, Proof(h, Response(bit, r, secret, p_minus_1)))
             /\ rs' = Append(rs, r)
    /\ UNCHANGED <<pc, call, secret, generator, modulus, residue,
                   vResidue, vProofs, result, evaluated>>

\* lib.rs:61: the loop is over, prove returns (residue, proofs)
ProveReturn ==
    /\ pc = "loop"
    /\ Len(proofs) = ROUND_OF_VERIFY
    /\ pc' = "proved"
    /\ UNCHANGED <<call, secret, generator, modulus, residue, proofs, rs, hashBit,
                   vResidue, vProofs, result, evaluated>>

(***************************************************************************)
(* verify                                                                   *)
(***************************************************************************)
\* The closure as it would be with the two cases of the bit exchanged
RoundAccepted_swapped(hb, proof, y, g, p) ==
    LET bit == get_bit_by_hashing(hb, proof.h, g, p)
        lhs == pow_mod(g, proof.s, p)
        rhs == IF bit > 0 THEN proof.h ELSE mul_mod(proof.h, y, p)
    IN  lhs = rhs

\* The closure as it would be if it compared g^s with h whatever the bit
RoundAccepted_no_residue(hb, proof, y, g, p) ==
    LET lhs == pow_mod(g, proof.s, p)
    IN  lhs = proof.h

\* lib.rs:79-94: the closure verify runs on one round, under the oracle hb
RoundAccepted(hb, proof, y, g, p) ==
    LET bit == get_bit_by_hashing(hb, proof.h, g, p)
        lhs == pow_mod(g, proof.s, p)
        rhs == IF bit > 0 THEN mul_mod(proof.h, y, p) ELSE proof.h
    IN  lhs = rhs

\* The iteration as it would be if it returned after its first round
IterFirst(hb, prf, i, y, g, p) ==
    IF i > Len(prf) THEN [ok |-> TRUE, n |-> i - 1]
    ELSE IF hb[HashKey(prf[i].h, g, p)] = 0
         THEN [ok |-> PowNat(g, prf[i].s, p) = prf[i].h, n |-> i]
    ELSE [ok |-> PowNat(g, prf[i].s, p) = ((prf[i].h % p) * (y % p)) % p, n |-> i]

RECURSIVE IterAny(_, _, _, _, _, _)
\* proofs.iter().any(closure) in place of all: true at the first accepted round
IterAny(hb, prf, i, y, g, p) ==
    IF i > Len(prf) THEN [ok |-> FALSE, n |-> i - 1]
    ELSE IF hb[HashKey(prf[i].h, g, p)] = 0 /\ PowNat(g, prf[i].s, p) = prf[i].h
         THEN [ok |-> TRUE, n |-> i]
    ELSE IF hb[HashKey(prf[i].h, g, p)] = 1
              /\ PowNat(g, prf[i].s, p) = ((prf[i].h % p) * (y % p)) % p
         THEN [ok |-> TRUE, n |-> i]
    ELSE IterAny(hb, prf, i + 1, y, g, p)

RECURSIVE IterAll(_, _, _, _, _, _)
\* proofs.iter().all(closure) from round i on: the closure runs on the rounds
\* in order and stops at the first one it rejects.  ok is the result, n the
\* number of rounds the closure ran on.
IterAll(hb, prf, i, y, g, p) ==
    IF i > Len(prf) THEN [ok |-> TRUE, n |-> i - 1]
    ELSE IF ~RoundAccepted(hb, prf[i], y, g, p) THEN [ok |-> FALSE, n |-> i]
    ELSE IterAll(hb, prf, i + 1, y, g, p)

\* The oracle inputs of the rounds 1..n of prf
RoundKeys(prf, n, g, p) == {HashKey(prf[i].h, g, p) : i \in 1 .. n}

\* The length gate as it would be if it only rejected proofs that are too long
LengthOk_atmost(prf) == Len(prf) <= ROUND_OF_VERIFY

\* lib.rs:73: the length gate (verify goes on when it holds)
LengthOk(prf) == Len(prf) = ROUND_OF_VERIFY

\* lib.rs:67-95: one call verify(y, generator, modulus, prf)
VerifyCall(y, prf) ==
    /\ call' = "verify"
    /\ vResidue' = y
    /\ vProofs' = prf
    /\ IF ~LengthOk(prf)
       THEN /\ result' = FALSE
            /\ evaluated' = 0
            /\ pc' = "done"
            /\ UNCHANGED hashBit
       ELSE \E o \in CacheNew(modulus) :
              IF o = "ok"
              THEN LET missing == RoundKeys(prf, Len(prf), generator, modulus)
                                    \ DOMAIN hashBit
                   IN  \E fresh \in [missing -> {0, 1}] :
                         LET hb  == fresh @@ hashBit
                             out == IterAll(hb, prf, 1, y, generator, modulus)
                             asked == DOMAIN hashBit
                                        \cup RoundKeys(prf, out.n, generator, modulus)
                         IN  /\ result' = out.ok
                             /\ evaluated' = out.n
                             /\ hashBit' = [k \in asked |-> hb[k]]
                             /\ pc' = "done"
              ELSE /\ pc' = IF o = "panic" THEN "aborted" ELSE "unspecified"
                   /\ UNCHANGED <<result, evaluated, hashBit>>
    /\ UNCHANGED <<secret, generator, modulus, residue, proofs, rs>>

\* tests::test_positive, test_negative: verify on what prove returned
VerifyHonest ==
    /\ pc = "proved"
    /\ VerifyCall(residue, proofs)

\* prove's rounds cut to the first k
Truncated(prf, k) == SubSeq(prf, 1, k)

\* verify on a proof with fewer rounds than prove returned (none, too)
VerifyTruncated ==
    /\ pc = "proved"
    /\ \E k \in 0 .. (Len(proofs) - 1) : VerifyCall(residue, Truncated(proofs, k))

\* verify on a proof with one round more: round i once again at the end
VerifyExtended ==
    /\ pc = "proved"
    /\ \E i \in 1 .. Len(proofs) : VerifyCall(residue, Append(proofs, proofs[i]))

\* Round i's response replaced by (s + 1) mod (modulus - 1)
Tampered(prf, i, p) == [prf EXCEPT ![i].s = (@ + 1) % (p - 1)]

\* verify on prove's output with one response changed
VerifyTampered ==
    /\ pc = "proved"
    /\ \E i \in 1 .. Len(proofs) : VerifyCall(residue, Tampered(proofs, i, modulus))

\* Rounds i and j exchanged
Swapped(prf, i, j) == [prf EXCEPT ![i] = prf[j], ![j] = prf[i]]

\* verify on prove's rounds in another order
VerifySwapped ==
    /\ pc = "proved"
    /\ \E i \in 1 .. Len(proofs) : \E j \in (i + 1) .. Len(proofs) :
          VerifyCall(residue, Swapped(proofs, i, j))

\* The residues a caller may give verify in place of prove's: its neighbours
\* modulo p, and the next integer congruent to it
OtherResidues ==
    {(residue + d) % UintMod : d \in {1, modulus - 1, modulus}} \ {residue}

\* verify on prove's rounds with another residue
VerifyWrongResidue ==
    /\ pc = "proved"
    /\ \E y \in OtherResidues : VerifyCall(y, proofs)

\* A proof of k rounds, each the round (h, s)
Repeated(h, s, k) == [i \in 1 .. k |-> Proof(h, s)]

\* verify on a proof made without prove and without the secret: the same
\* small round k times, for a residue of the forger's choice
VerifyForged ==
    /\ pc = "idle"
    /\ \E y \in 0 .. 1 : \E h \in 0 .. 1 : \E s \in 0 .. 1 :
       \E k \in 0 .. (ROUND_OF_VERIFY + 1) :
          VerifyCall(y, Repeated(h, s, k))

Next ==
    \/ ProveStart
    \/ ProveRound
    \/ ProveReturn
    \/ VerifyHonest
    \/ VerifyTruncated
    \/ VerifyExtended
    \/ VerifyTampered
    \/ VerifySwapped
    \/ VerifyWrongResidue
    \/ VerifyForged

Spec == Init /\ [][Next]_vars

(***************************************************************************)
(* The reference vectors of the tests: prove, then verify on its output.    *)
(***************************************************************************)
\* tests::test_positive: secret 17, generator 3, modulus 31;
\* tests::test_negative: secret 10, generator 2, modulus 67
RefVectors == {<<17, 3, 31>>, <<10, 2, 67>>}

RefInit ==
    /\ pc = "idle"
    /\ call = "none"
    /\ \E v \in RefVectors :
          /\ secret = v[1]
          /\ generator = v[2]
          /\ modulus = v[3]
    /\ residue = Unset
    /\ proofs = <<>>
    /\ rs = <<>>
    /\ hashBit = <<>>
    /\ vResidue = Unset
    /\ vProofs = <<>>
    /\ result = FALSE
    /\ evaluated = 0

RefNext ==
    \/ ProveStart
    \/ ProveRound
    \/ ProveReturn
    \/ VerifyHonest

SpecRef == RefInit /\ [][RefNext]_vars

(***************************************************************************)
(* Vocabulary of the properties.                                            *)
(***************************************************************************)
IsPrime(n) == n > 1 /\ \A d \in 2 .. (n - 1) : n % d # 0

\* The multiplicative order of g modulo p; 0 when no power of g is 1
Order(g, p) ==
    IF \E k \in 1 .. p : PowNat(g, k, p) = 1
    THEN CHOOSE k \in 1 .. p :
            /\ PowNat(g, k, p) = 1
            /\ \A j \in 1 .. (k - 1) : PowNat(g, j, p) # 1
    ELSE 0

\* prove has returned
Proved == pc \in {"proved", "done"} /\ Len(proofs) = ROUND_OF_VERIFY

\* verify has returned
Verified == pc = "done" /\ call = "verify"

\* verify has returned, and was called on what prove returned
HonestCall == Verified /\ Proved /\ vResidue = residue /\ vProofs = proofs

\* The challenge bit of round i of prove's output
BitOf(i) == hashBit[HashKey(proofs[i].h, generator, modulus)]

\* The equation the specification asks of a round (h, s) for the residue y
RoundHolds(rnd, y) ==
    LET key == HashKey(rnd.h, generator, modulus) IN
    /\ key \in DOMAIN hashBit
    /\ IF hashBit[key] = 0
       THEN PowNat(generator, rnd.s, modulus) = rnd.h
       ELSE PowNat(generator, rnd.s, modulus) = (rnd.h * y) % modulus

C3_LengthGate ==
    (call = "verify" /\ Len(vProofs) # ROUND_OF_VERIFY)
        => (pc = "done" /\ result = FALSE /\ evaluated = 0)

\* A proof that verify accepts, cut by one round: every round left satisfies
\* its equation, yet verify returned false
C3_Witness ==
    /\ Verified /\ Proved
    /\ vResidue = residue
    /\ vProofs = Truncated(proofs, ROUND_OF_VERIFY - 1)
    /\ \A i \in 1 .. Len(proofs) : RoundHolds(proofs[i], residue)
    /\ result = FALSE

(***************************************************************************)
(* C8.  For a proof of exactly ROUND_OF_VERIFY rounds verify returns true   *)
(* if and only if every round satisfies its own equation (g^s = h for bit   *)
(* 0, g^s = h * residue for bit 1, modulo p); the same rounds in another    *)
(* order give the same result.                                              *)
(***************************************************************************)
C8_RoundConjunction ==
    (Verified /\ Len(vProofs) = ROUND_OF_VERIFY)
        => /\ result = (\A i \in 1 .. Len(vProofs) : RoundHolds(vProofs[i], vResidue))
           /\ (Proved /\ vResidue = residue
                 /\ \E i, j \in 1 .. Len(proofs) : vProofs = Swapped(proofs, i, j))
                => result = (\A i \in 1 .. Len(proofs) : RoundHolds(proofs[i], residue))

\* verify ran past an accepted first round and returned false on the second
C8_Witness ==
    /\ Verified
    /\ Len(vProofs) = ROUND_OF_VERIFY
    /\ RoundHolds(vProofs[1], vResidue)
    /\ ~RoundHolds(vProofs[2], vResidue)
    /\ evaluated = 2
    /\ result = FALSE

(***************************************************************************)
(* C9.  Every round prove emits has h = g^r mod p, s = r for bit 0 and      *)
(* s = (r + secret) mod (modulus - 1) for bit 1, so that s lies in          *)
(* 0 .. modulus - 2 and h in 0 .. modulus - 1, for every secret.            *)
(***************************************************************************)
C9_ResponseFormula ==
    pc \in {"loop", "proved"} =>
        \A i \in 1 .. Len(proofs) :
            /\ proofs[i].h = PowNat(generator, rs[i], modulus)
            /\ proofs[i].h \in 0 .. (modulus - 1)
            /\ proofs[i].s = IF BitOf(i) = 0 THEN rs[i]
                             ELSE (rs[i] + secret) % (modulus - 1)
            /\ proofs[i].s \in 0 .. (modulus - 2)

C4_AbortsBeforeWork ==
    modulus <= 1 =>
        /\ residue = Unset
        /\ proofs = <<>>
        /\ pc \notin {"loop", "proved"}
        /\ call = "prove" => pc = "aborted"

(***************************************************************************)
(* C4.  prove aborts when modulus <= 1, before it computes the residue or   *)
(* any round; for an odd modulus > 1 it does not abort, and returns a       *)
(* residue below the modulus and exactly ROUND_OF_VERIFY rounds.            *)
(***************************************************************************)
C4_Precondition ==
    /\ C4_AbortsBeforeWork
    /\ (call = "prove" /\ modulus > 1 /\ modulus % 2 = 1)
         => /\ pc \in {"loop", "proved"}
            /\ residue \in 0 .. (modulus - 1)
            /\ Len(proofs) <= ROUND_OF_VERIFY
            /\ pc = "proved" => Len(proofs) = ROUND_OF_VERIFY

\* C4 as claimed: no abort for any modulus > 1
C4_Original ==
    /\ C4_AbortsBeforeWork
    /\ (call = "prove" /\ modulus > 1)
         => /\ pc # "aborted"
            /\ pc = "proved" => Len(proofs) = ROUND_OF_VERIFY

\* prove called with modulus 1 has aborted
C4_Witness ==
    /\ call = "prove"
    /\ modulus = 1
    /\ pc = "aborted"
    /\ proofs = <<>>

TamperedCall ==
    /\ Verified /\ Proved
    /\ vResidue = residue
    /\ \E i \in 1 .. Len(proofs) : vProofs = Tampered(proofs, i, modulus)
    /\ IterAll(hashBit, proofs, 1, residue, generator, modulus).ok

(***************************************************************************)
(* C6.  In a proof that verify accepts, replacing one round's s by          *)
(* (s + 1) mod (modulus - 1) makes verify return false, when the modulus is *)
(* prime and the generator has multiplicative order greater than 1.         *)
(***************************************************************************)
C6_TamperDetected ==
    (TamperedCall /\ IsPrime(modulus) /\ Order(generator, modulus) > 1)
        => result = FALSE

\* C6 as claimed: for every generator and modulus
C6_Original == TamperedCall => result = FALSE

\* The second round's response changed, found after the first round passed
C6_Witness ==
    /\ TamperedCall
    /\ IsPrime(modulus) /\ Order(generator, modulus) > 1
    /\ vProofs = Tampered(proofs, 2, modulus)
    /\ evaluated = 2
    /\ result = FALSE

\* verify was called on prove's rounds with another residue
WrongResidueCall == Verified /\ Proved /\ vProofs = proofs /\ vResidue # residue

\* Every bit-1 round is rejected under the residue given, every bit-0 round
\* fares as under prove's residue, and one bit-1 round makes verify false
WrongResidueRejected ==
    /\ \A i \in 1 .. Len(proofs) :
          /\ BitOf(i) = 1 =>
                ~RoundAccepted(hashBit, proofs[i], vResidue, generator, modulus)
          /\ BitOf(i) = 0 =>
                (RoundAccepted(hashBit, proofs[i], vResidue, generator, modulus)
                   = RoundAccepted(hashBit, proofs[i], residue, generator, modulus))
    /\ (\E i \in 1 .. Len(proofs) : BitOf(i) = 1) => result = FALSE

(***************************************************************************)
(* C7.  verify on prove's rounds with a residue that is not congruent to    *)
(* g^secret modulo p, for a prime p and a generator p does not divide:      *)
(* every round whose bit is 1 is rejected, a round whose bit is 0 is        *)
(* accepted as before, and verify returns false once a round has bit 1.     *)
(***************************************************************************)
C7_WrongResidue ==
    (WrongResidueCall /\ IsPrime(modulus) /\ generator % modulus # 0
        /\ vResidue % modulus # residue)
        => WrongResidueRejected

\* C7 as claimed: for every residue that differs from prove's
C7_Original == WrongResidueCall => WrongResidueRejected

\* A bit-0 round accepted and then a bit-1 round rejected under a residue
\* that is not congruent to prove's
C7_Witness ==
    /\ WrongResidueCall
    /\ IsPrime(modulus) /\ generator % modulus # 0
    /\ vResidue % modulus # residue
    /\ BitOf(1) = 0 /\ BitOf(2) = 1
    /\ evaluated = 2
    /\ result = FALSE

=============================================================================
